---- MODULE Spec2Model ----
(***************************************************************************)
(* Model of scripts/fan_control.py: the GPU fan controller.                *)
(*                                                                         *)
(* A config text is a sequence of lines, a line is a sequence of           *)
(* one-character strings.  read_config parses the text into a dict (kept   *)
(* here in insertion order, as a Python dict is), dict_to_ranges sorts it  *)
(* into the curve, and the main loop polls the sensor, evaluates the       *)
(* curve, decides whether to actuate, and sleeps.                          *)
(***************************************************************************)
EXTENDS Integers, Sequences, FiniteSets

(* Longest config text, in lines. *)
MaxLines == 3

----------------------------------------------------------------------------
(* Characters and the str methods read_config uses. *)

Digits == <<"0", "1", "2", "3", "4", "5", "6", "7", "8", "9">>

IsDigit(c) == \E i \in 1..Len(Digits) : Digits[i] = c

DigitVal(c) == (CHOOSE i \in 1..Len(Digits) : Digits[i] = c) - 1

IsSpace(c) == c \in {" ", "\t", "\n"}

(* line.startswith("#"): tested on the raw line, before any strip. *)
StartsWithHash(line) == Len(line) > 0 /\ line[1] = "#"

RECURSIVE LStrip(_)
LStrip(s) ==
    IF s # <<>> /\ IsSpace(Head(s)) THEN LStrip(Tail(s)) ELSE s

RECURSIVE RStrip(_)
RStrip(s) ==
    IF s # <<>> /\ IsSpace(s[Len(s)]) THEN RStrip(SubSeq(s, 1, Len(s) - 1)) ELSE s

(* str.strip() *)
Strip(s) == RStrip(LStrip(s))

(* str.split(): the maximal runs of non-whitespace characters, in order. *)
RECURSIVE SplitFrom(_, _, _)
SplitFrom(s, cur, acc) ==
    IF s = <<>>
    THEN IF cur = <<>> THEN acc ELSE Append(acc, cur)
    ELSE IF IsSpace(Head(s))
         THEN SplitFrom(Tail(s), <<>>, IF cur = <<>> THEN acc ELSE Append(acc, cur))
         ELSE SplitFrom(Tail(s), Append(cur, Head(s)), acc)

Split(s) == SplitFrom(s, <<>>, <<>>)

(* Value of a run of decimal digits. *)
RECURSIVE DecimalValue(_, _)
DecimalValue(ds, acc) ==
    IF ds = <<>> THEN acc ELSE DecimalValue(Tail(ds), 10 * acc + DigitVal(Head(ds)))

(* int(tok) for a whitespace-free token: an optional sign and one or more  *)
(* decimal digits; anything else raises ValueError (ok = FALSE).           *)
ParseInt(tok) ==
    LET signed == tok # <<>> /\ Head(tok) \in {"-", "+"}
        body   == IF signed THEN Tail(tok) ELSE tok
        valid  == body # <<>> /\ \A i \in 1..Len(body) : IsDigit(body[i])
    IN  IF ~valid
        THEN [ok |-> FALSE, val |-> 0]
        ELSE [ok |-> TRUE,
              val |-> IF signed /\ Head(tok) = "-"
                      THEN 0 - DecimalValue(body, 0)
                      ELSE DecimalValue(body, 0)]

----------------------------------------------------------------------------
(* The dict built by read_config: (key, value) pairs in insertion order.   *)

DictHas(d, k) == \E i \in 1..Len(d) : d[i][1] = k

(* d[k] = v keeps only the first value ever stored under k. *)
DictSet_KeepFirst(d, k, v) ==
    IF DictHas(d, k) THEN d ELSE Append(d, <<k, v>>)

(* d[k] = v stores every assignment as a new item, as a list would. *)
DictSet_Append(d, k, v) == Append(d, <<k, v>>)

(* d[k] = v: replaces the value of an existing key in place, else appends. *)
DictSet(d, k, v) ==
    IF DictHas(d, k)
    THEN [i \in 1..Len(d) |-> IF d[i][1] = k THEN <<k, v>> ELSE d[i]]
    ELSE Append(d, <<k, v>>)

----------------------------------------------------------------------------
(* read_config *)

(* One pass of the for loop over the remaining lines; a ValueError from    *)
(* the unpacking or from int() is re-raised as the format error.           *)
RECURSIVE ReadLines(_, _)
ReadLines(lines, d) ==
    IF lines = <<>>
    THEN [error |-> "none", config |-> d]
    ELSE LET line == Head(lines)
             toks == Split(Strip(line))
         IN  IF StartsWithHash(line)
             THEN ReadLines(Tail(lines), d)
             ELSE IF Len(toks) # 2
                  THEN [error |-> "ConfigFormat", config |-> <<>>]
                  ELSE LET k == ParseInt(toks[1])
                           v == ParseInt(toks[2])
                       IN  IF ~k.ok \/ ~v.ok
                           THEN [error |-> "ConfigFormat", config |-> <<>>]
                           ELSE ReadLines(Tail(lines), DictSet(d, k.val, v.val))

(* read_config that skips a line it cannot parse instead of raising. *)
RECURSIVE ReadLines_SkipBad(_, _)
ReadLines_SkipBad(lines, d) ==
    IF lines = <<>>
    THEN [error |-> "none", config |-> d]
    ELSE LET line == Head(lines)
             toks == Split(Strip(line))
         IN  IF StartsWithHash(line) \/ Len(toks) # 2
             THEN ReadLines_SkipBad(Tail(lines), d)
             ELSE LET k == ParseInt(toks[1])
                      v == ParseInt(toks[2])
                  IN  IF ~k.ok \/ ~v.ok
                      THEN ReadLines_SkipBad(Tail(lines), d)
                      ELSE ReadLines_SkipBad(Tail(lines), DictSet(d, k.val, v.val))

ReadConfig_SkipBad(lines) ==
    LET r == ReadLines_SkipBad(lines, <<>>)
    IN  IF r.config = <<>> THEN [error |-> "ConfigEmpty", config |-> <<>>] ELSE r

(* read_config(path): the parsed dict, or the error raised. *)
ReadConfig(lines) ==
    LET r == ReadLines(lines, <<>>)
    IN  IF r.error # "none" THEN r
        ELSE IF r.config = <<>> THEN [error |-> "ConfigEmpty", config |-> <<>>]
        ELSE r

----------------------------------------------------------------------------
(* dict_to_ranges *)

(* Stable insertion of an item by its key: after every item whose key is   *)
(* not greater.                                                            *)
RECURSIVE InsertByKey(_, _)
InsertByKey(sorted, item) ==
    IF sorted = <<>> THEN <<item>>
    ELSE IF item[1] < Head(sorted)[1] THEN <<item>> \o sorted
    ELSE <<Head(sorted)>> \o InsertByKey(Tail(sorted), item)

RECURSIVE SortByKey(_, _)
SortByKey(items, acc) ==
    IF items = <<>> THEN acc
    ELSE SortByKey(Tail(items), InsertByKey(acc, Head(items)))

(* dict_to_ranges that forgets to sort: the items in insertion order. *)
DictToRanges_Unsorted(d) == d

(* sorted(list(temp_fan.items()), key=lambda x: x[0]) *)
DictToRanges(d) == SortByKey(d, <<>>)

----------------------------------------------------------------------------
(* compute_fan_speed *)

(* The for loop from entry i on, lower_fan being the speed tracked so far. *)
RECURSIVE Scan(_, _, _, _)
Scan(t, tf, i, lower_fan) ==
    IF i > Len(tf) THEN lower_fan
    ELSE IF t < tf[i][1] THEN lower_fan
    ELSE Scan(t, tf, i + 1, tf[i][2])

(* The loop with the early return taken at temp <= t instead of temp < t. *)
RECURSIVE Scan_OffByOne(_, _, _, _)
Scan_OffByOne(t, tf, i, lower_fan) ==
    IF i > Len(tf) THEN lower_fan
    ELSE IF t <= tf[i][1] THEN lower_fan
    ELSE Scan_OffByOne(t, tf, i + 1, tf[i][2])

ComputeFanSpeed_OffByOne(t, tf) ==
    Scan_OffByOne(t, tf, 1, IF t >= tf[1][1] THEN tf[1][2] ELSE 0)

(* compute_fan_speed(temp, temp_fan) *)
ComputeFanSpeed(t, tf) ==
    Scan(t, tf, 1, IF t >= tf[1][1] THEN tf[1][2] ELSE 0)

----------------------------------------------------------------------------
(* set_fan_speed *)

Abs(x) == IF x < 0 THEN 0 - x ELSE x

(* The band within which no command is issued. *)
Band == 5

(* The test with >= in place of >. *)
NeedsCommand_Inclusive(cur, comp) == Abs(cur - comp) >= Band

(* abs(current_fan - computed_fan) > 5 *)
NeedsCommand(cur, comp) == Abs(cur - comp) > Band

----------------------------------------------------------------------------
(* The inputs: config lines, sensor outputs, actuator exit statuses. *)

Line_40_30    == <<"4", "0", " ", "3", "0", "\n">>
Line_60_50    == <<"6", "0", " ", "5", "0">>
Line_80_80    == <<" ", "8", "0", "\t", " ", "8", "0", " ", "\n">>
Line_60_20    == <<"6", "0", " ", "2", "0", "\n">>
Line_20_Neg   == <<"2", "0", " ", "-", "5", "\n">>
Line_Comment  == <<"#", " ", "c", "\n">>
Line_Indented == <<" ", "#", "c", "\n">>
Line_Blank    == <<"\n">>
Line_Word     == <<"a", "b", "c", " ", "5", "0", "\n">>
Line_Three    == <<"4", "0", " ", "3", "0", " ", "1", "\n">>

Lines == {Line_40_30, Line_60_50, Line_80_80, Line_60_20, Line_20_Neg, Line_Comment,
          Line_Indented, Line_Blank, Line_Word, Line_Three}

Texts == UNION {[1..n -> Lines] : n \in 0..MaxLines}

(* Values nvidia-settings may report. *)
Temps == {35, 40, 60, 70, 80, 90}
Fans  == {0, 25, 36, 50, 55}

(* What the two regex searches find in the output of the query command:    *)
(* no match (<<>>) or the matched number; exit is the command's status.    *)
SensorOutputs ==
    [exit : {0, 1},
     temp : {<<>>} \cup {<<t>> : t \in Temps},
     fan  : {<<>>} \cup {<<f>> : f \in Fans}]

----------------------------------------------------------------------------
(* The program. *)

VARIABLES
    text,          \* the lines of the config file
    pc,            \* position in __main__: start, read, compute, set, sleep, exited
    failure,       \* the exception that ended the process, or "none"
    config,        \* main's config (the dict)
    temp_fan,      \* main's temp_fan (the sorted curve)
    temp,          \* main's temp
    fan,           \* main's fan
    computed_fan,  \* main's computed_fan
    reads,         \* sensor queries run in the current poll cycle
    cmds,          \* fan targets commanded in the current poll cycle
    polled,        \* the sensor has been queried at some time
    actuated       \* the actuator has been commanded at some time

vars == <<text, pc, failure, config, temp_fan, temp, fan, computed_fan,
          reads, cmds, polled, actuated>>

Init ==
    /\ text \in Texts
    /\ pc = "start"
    /\ failure = "none"
    /\ config = <<>>
    /\ temp_fan = <<>>
    /\ temp = 0
    /\ fan = 0
    /\ computed_fan = 0
    /\ reads = 0
    /\ cmds = <<>>
    /\ polled = FALSE
    /\ actuated = FALSE

(* config = read_config(config_file); temp_fan = dict_to_ranges(config).   *)
(* An exception of read_config is not caught: the process ends.            *)
Startup ==
    /\ pc = "start"
    /\ LET r == ReadConfig(text)
       IN  IF r.error # "none"
           THEN /\ pc' = "exited"
                /\ failure' = r.error
                /\ UNCHANGED <<config, temp_fan>>
           ELSE /\ pc' = "read"
                /\ config' = r.config
                /\ temp_fan' = DictToRanges(r.config)
                /\ UNCHANGED failure
    /\ UNCHANGED <<text, temp, fan, computed_fan, reads, cmds, polled, actuated>>

(* A failed sensor read that is swallowed: the loop goes on to the sleep. *)
GetTempFanSpeed_Retry ==
    /\ pc = "read"
    /\ \E out \in SensorOutputs :
          IF out.exit # 0 \/ out.temp = <<>> \/ out.fan = <<>>
          THEN /\ pc' = "sleep"
               /\ failure' = IF out.exit # 0 THEN "CalledProcessError" ELSE "SensorParse"
               /\ UNCHANGED <<temp, fan>>
          ELSE /\ pc' = "compute"
               /\ temp' = out.temp[1]
               /\ fan' = out.fan[1]
               /\ UNCHANGED failure
    /\ reads' = reads + 1
    /\ polled' = TRUE
    /\ UNCHANGED <<text, config, temp_fan, computed_fan, cmds, actuated>>

(* temp, fan = get_temp_fan_speed(): check_output raises on a non-zero     *)
(* exit, a missing match raises ValueError; neither is caught.             *)
GetTempFanSpeed ==
    /\ pc = "read"
    /\ \E out \in SensorOutputs :
          IF out.exit # 0 \/ out.temp = <<>> \/ out.fan = <<>>
          THEN /\ pc' = "exited"
               /\ failure' = IF out.exit # 0 THEN "CalledProcessError" ELSE "SensorParse"
               /\ UNCHANGED <<temp, fan>>
          ELSE /\ pc' = "compute"
               /\ temp' = out.temp[1]
               /\ fan' = out.fan[1]
               /\ UNCHANGED failure
    /\ reads' = reads + 1
    /\ polled' = TRUE
    /\ UNCHANGED <<text, config, temp_fan, computed_fan, cmds, actuated>>

(* computed_fan = compute_fan_speed(temp, temp_fan) *)
Compute ==
    /\ pc = "compute"
    /\ computed_fan' = ComputeFanSpeed(temp, temp_fan)
    /\ pc' = "set"
    /\ UNCHANGED <<text, failure, config, temp_fan, temp, fan, reads, cmds,
                   polled, actuated>>

(* set_fan_speed(fan, computed_fan): outside the band the command is run,  *)
(* and check_output raises on its non-zero exit, which nothing catches.    *)
SetFanSpeed ==
    /\ pc = "set"
    /\ IF NeedsCommand(fan, computed_fan)
       THEN /\ cmds' = Append(cmds, computed_fan)
            /\ actuated' = TRUE
            /\ \E status \in {0, 1} :
                  IF status # 0
                  THEN pc' = "exited" /\ failure' = "ActuatorCommand"
                  ELSE pc' = "sleep" /\ UNCHANGED failure
       ELSE /\ pc' = "sleep"
            /\ UNCHANGED <<cmds, actuated, failure>>
    /\ UNCHANGED <<text, config, temp_fan, temp, fan, computed_fan, reads, polled>>

(* The loop with the sensor read hoisted out of it: after the sleep the    *)
(* old reading is evaluated again.                                         *)
Sleep_NoReread ==
    /\ pc = "sleep"
    /\ pc' = "compute"
    /\ reads' = 0
    /\ cmds' = <<>>
    /\ UNCHANGED <<text, failure, config, temp_fan, temp, fan, computed_fan,
                   polled, actuated>>

(* time.sleep(30), then the next iteration of while True. *)
Sleep ==
    /\ pc = "sleep"
    /\ pc' = "read"
    /\ reads' = 0
    /\ cmds' = <<>>
    /\ UNCHANGED <<text, failure, config, temp_fan, temp, fan, computed_fan,
                   polled, actuated>>

Next == Startup \/ GetTempFanSpeed \/ Compute \/ SetFanSpeed \/ Sleep

Spec == Init /\ [][Next]_vars

----------------------------------------------------------------------------
(* Reference definitions used by the properties below. *)

(* The curve has been built and the loop entered. *)
Loaded == pc # "start" /\ failure \notin {"ConfigFormat", "ConfigEmpty"}

(* The state right after a successful startup; config and temp_fan never   *)
(* change afterwards.                                                      *)
JustLoaded == pc = "read" /\ ~polled

(* Temperatures at which a curve is probed: the sensor values and every    *)
(* threshold with its two neighbours.                                      *)
Probes(tf) ==
    Temps \cup {tf[i][1] + d : i \in DOMAIN tf, d \in {-1, 0, 1}}

(* Lower-bound lookup: the speed of the entry with the greatest threshold  *)
(* <= t, and 0 when there is none.                                         *)
LowerBound(tf, t) ==
    LET below == {i \in DOMAIN tf : tf[i][1] <= t}
    IN  IF below = {} THEN 0
        ELSE tf[CHOOSE i \in below : \A j \in below : tf[j][1] <= tf[i][1]][2]

(* A line read_config does not take for a comment. *)
NonComment(line) == ~StartsWithHash(line)

(* The line splits into exactly two integer tokens. *)
TwoInts(line) ==
    LET toks == Split(Strip(line))
    IN  Len(toks) = 2 /\ ParseInt(toks[1]).ok /\ ParseInt(toks[2]).ok

LineTemp(line)  == ParseInt(Split(Strip(line))[1]).val
LineSpeed(line) == ParseInt(Split(Strip(line))[2]).val

(* Indices of the lines of the text that carry an entry. *)
EntryLines == {i \in DOMAIN text : NonComment(text[i])}

(* A blank line, or a comment once surrounding whitespace is trimmed. *)
Skippable(line) ==
    Strip(line) = <<>> \/ Head(Strip(line)) = "#"

SortedAscending(tf) ==
    \A i, j \in DOMAIN tf : i < j => tf[i][1] <= tf[j][1]

----------------------------------------------------------------------------
(* C1: on the sorted curve compute_fan_speed is the lower-bound lookup:    *)
(* the speed of the greatest threshold <= t, 0 when there is none; hence 0 *)
(* below the lowest threshold, the last entry's speed at or above the      *)
(* highest, and always 0 or a configured speed.                            *)
C1_LowerBoundLookup ==
    /\ JustLoaded =>
          \A t \in Probes(temp_fan) :
             LET r == ComputeFanSpeed(t, temp_fan)
             IN  /\ r = LowerBound(temp_fan, t)
                 /\ r = 0 \/ \E i \in DOMAIN temp_fan : r = temp_fan[i][2]
                 /\ t < temp_fan[1][1] => r = 0
                 /\ t >= temp_fan[Len(temp_fan)][1] => r = temp_fan[Len(temp_fan)][2]
    /\ pc = "set" => computed_fan = LowerBound(temp_fan, temp)

C1_Witness ==
    /\ pc = "set"
    /\ temp_fan = <<<<40, 30>>, <<60, 50>>, <<80, 80>>>>
    /\ temp = 70
    /\ computed_fan = 50

(* C2: set_fan_speed commands exactly computed_fan when the read and the   *)
(* computed speed differ by more than 5, and commands nothing otherwise,   *)
(* a difference of exactly 5 included.                                     *)
C2_CommandIffOutsideBand ==
    (pc = "sleep" \/ failure = "ActuatorCommand") =>
        IF fan - computed_fan > 5 \/ computed_fan - fan > 5
        THEN cmds = <<computed_fan>>
        ELSE cmds = <<>>

C2_Witness ==
    /\ pc = "sleep"
    /\ fan = 25
    /\ computed_fan = 30
    /\ cmds = <<>>

(* C3 as stated: for every curve read_config and dict_to_ranges produce,   *)
(* compute_fan_speed is non-decreasing in the temperature.                 *)
C3_MonotoneForAllCurves ==
    JustLoaded =>
        \A t1, t2 \in Probes(temp_fan) :
           t1 <= t2 => ComputeFanSpeed(t1, temp_fan) <= ComputeFanSpeed(t2, temp_fan)

(* C3 amended: compute_fan_speed is non-decreasing in the temperature for  *)
(* every config whose speeds are non-negative and non-decreasing in the    *)
(* temperature of their entries.                                           *)
C3_MonotoneForMonotoneSpeeds ==
    LET rising == \A i, j \in DOMAIN config :
                     /\ config[i][2] >= 0
                     /\ config[i][1] <= config[j][1] => config[i][2] <= config[j][2]
    IN  /\ (JustLoaded /\ rising) =>
              \A t1, t2 \in Probes(temp_fan) :
                 t1 <= t2 =>
                    ComputeFanSpeed(t1, temp_fan) <= ComputeFanSpeed(t2, temp_fan)
        /\ (pc = "set" /\ rising) =>
              \A t \in Probes(temp_fan) :
                 /\ t <= temp => ComputeFanSpeed(t, temp_fan) <= computed_fan
                 /\ temp <= t => computed_fan <= ComputeFanSpeed(t, temp_fan)

C3_Witness ==
    /\ pc = "set"
    /\ config = <<<<60, 50>>, <<80, 80>>, <<40, 30>>>>
    /\ temp = 90
    /\ computed_fan = 80

(* C4 as stated: the curve of a text that parses is sorted ascending by    *)
(* temperature and has as many entries as the text has non-comment,        *)
(* non-blank lines.  (Text and curve are fixed once loaded, so the lines   *)
(* are counted in the state after startup.)                                *)
C4_LengthIsLineCount ==
    /\ Loaded => SortedAscending(temp_fan)
    /\ JustLoaded =>
          Len(temp_fan) = Cardinality({i \in EntryLines : Strip(text[i]) # <<>>})

(* C4 amended: the curve of a text that parses is sorted ascending by      *)
(* temperature and has as many entries as there are distinct temperatures  *)
(* on the non-comment lines of the text.                                   *)
C4_LengthIsDistinctTemps ==
    /\ Loaded => SortedAscending(temp_fan)
    /\ JustLoaded =>
          Len(temp_fan) = Cardinality({LineTemp(text[i]) : i \in EntryLines})

C4_Witness ==
    /\ Loaded
    /\ text = <<Line_60_50, Line_40_30, Line_60_20>>
    /\ Len(temp_fan) = 2

(* C5: read_config skips blank lines and lines whose first non-whitespace  *)
(* character is '#': a text parses to the curve of its other lines alone.  *)
C5_BlankAndIndentedCommentSkipped ==
    pc # "start" =>
        LET rest == SelectSeq(text, LAMBDA l : ~Skippable(l))
            r    == ReadConfig(rest)
        IN  r.error = "none" =>
               /\ Loaded
               /\ temp_fan = DictToRanges(r.config)

(* C6: a non-comment line that is not two integers, or a text without any  *)
(* entry, ends the process at startup: no curve is built, the sensor is    *)
(* never read and the actuator never commanded; and startup fails for no   *)
(* other text.  (The text is fixed, so the lines are inspected in the      *)
(* state startup leaves.)                                                  *)
C6_ConfigErrorsFailFast ==
    LET malformed == \E i \in EntryLines : ~TwoInts(text[i])
        empty     == EntryLines = {}
    IN  /\ JustLoaded => ~malformed /\ ~empty
        /\ failure \in {"ConfigFormat", "ConfigEmpty"} =>
              /\ failure = IF malformed THEN "ConfigFormat" ELSE "ConfigEmpty"
              /\ malformed \/ empty
              /\ pc = "exited"
              /\ config = <<>> /\ temp_fan = <<>>
              /\ ~polled /\ ~actuated
              /\ reads = 0 /\ cmds = <<>>
        /\ (polled \/ actuated \/ temp_fan # <<>>) =>
              failure \notin {"ConfigFormat", "ConfigEmpty"}

C6_Witness ==
    /\ pc = "exited"
    /\ failure = "ConfigFormat"
    /\ text = <<Line_40_30, Line_60_50, Line_Three>>

(* C7: a poll cycle is one sensor read, then at most one actuator command, *)
(* then the sleep, then the next cycle's read; a command is issued exactly *)
(* when the cycle's own reading differs from the curve's value at that     *)
(* reading's temperature by more than 5, and that value is its target.     *)
C7_CycleOrder ==
    [][ /\ pc = "sleep" => pc' = "read"
        /\ pc' = "read" => reads' = 0 /\ cmds' = <<>>
        /\ pc' \in {"compute", "set"} => reads' = 1 /\ cmds' = <<>>
        /\ pc' = "sleep" =>
              LET want == LowerBound(temp_fan', temp')
              IN  /\ reads' = 1
                  /\ cmds' = IF fan' - want > 5 \/ want - fan' > 5
                             THEN <<want>> ELSE <<>>
      ]_vars

C7_Witness ==
    /\ pc = "sleep"
    /\ actuated
    /\ temp_fan = <<<<40, 30>>, <<60, 50>>, <<80, 80>>>>
    /\ temp = 70
    /\ fan = 50
    /\ cmds = <<>>

(* C8: a failed actuator command does not end the process; the loop goes   *)
(* on to the sleep and the next cycle.                                     *)
C8_ActuatorFailureNotFatal ==
    failure = "ActuatorCommand" => pc # "exited"

(* C9: a sensor output without a parsable temperature or fan speed ends    *)
(* the process in that cycle: nothing is evaluated or commanded, there is  *)
(* no sleep, and no step is ever taken again.                              *)
C9_SensorFailureTerminates ==
    [][ /\ (failure # "SensorParse" /\ failure' = "SensorParse") =>
              /\ pc = "read" /\ pc' = "exited"
              /\ UNCHANGED <<temp, fan, computed_fan, cmds>>
        /\ failure = "SensorParse" => UNCHANGED vars
      ]_vars

C9_Witness ==
    /\ failure = "SensorParse"
    /\ pc = "exited"
    /\ actuated
    /\ reads = 1

(* C10: the curve is strictly increasing in temperature, and for every     *)
(* temperature in the text its entry carries the speed of the last line    *)
(* with that temperature.  (The text, the dict and the curve are fixed     *)
(* once loaded, so the lines are compared in the state after startup.)     *)
C10_StrictAndLastWins ==
    /\ Loaded =>
          \A i, j \in DOMAIN temp_fan : i < j => temp_fan[i][1] < temp_fan[j][1]
    /\ JustLoaded =>
          \A i \in EntryLines :
             LET same == {j \in EntryLines : LineTemp(text[j]) = LineTemp(text[i])}
                 last == CHOOSE j \in same : \A k \in same : k <= j
             IN  /\ \E n \in DOMAIN temp_fan :
                       temp_fan[n] = <<LineTemp(text[i]), LineSpeed(text[last])>>
                 /\ Cardinality({n \in DOMAIN temp_fan :
                                    temp_fan[n][1] = LineTemp(text[i])}) = 1

C10_Witness ==
    /\ Loaded
    /\ text = <<Line_60_50, Line_40_30, Line_60_20>>
    /\ temp_fan = <<<<40, 30>>, <<60, 20>>>>

====
